---- MODULE Spec2Model ----
(***************************************************************************)
(* Model of the upload bridge (src/lib/cloudinary.ts), of the admin events *)
(* page (src/app/admin/events/page.tsx) and of the sponsor form.           *)
(*                                                                         *)
(* Spec        the upload bridge against a host that may call the          *)
(*             completion callback with any arguments, any number of times *)
(* SpecFresh   the upload bridge against a host that answers a success     *)
(*             with the location it assigned to the object it stored       *)
(* SpecEvents  the admin events page, its requests and the REST server     *)
(* SpecFilter  the page's list and search box over every initial           *)
(*             collection and every search string                          *)
(* SpecSponsor the sponsor form: its logo validation and its POST          *)
(***************************************************************************)
EXTENDS Integers, Sequences, FiniteSets, TLC

\* ------------------------------------------------------------------ bounds
NumInvocations == 2   \* invocations of uploadToCloudinary in one run
MaxCalls == 2         \* calls of completion callbacks by the host in one run
MaxEvents == 2        \* events in the server's initial collection
MaxQueryLen == 2      \* characters in a search string
MaxDeletes == 2       \* DELETE requests issued in one run
MaxFiles == 1         \* files in the list of the logo input
MaxSubmits == 2       \* submissions of the sponsor form in one run

\* ------------------------------------------------------------- values
\* Every JavaScript value is a record tagged with its type.
Null == [type |-> "undefined"]
Bytes(data) == [type |-> "bytes", data |-> data]
Err(name) == [type |-> "error", name |-> name]
Str(scheme, folder, n) == [type |-> "string", scheme |-> scheme, folder |-> folder, loc |-> n]

Inv == 1..NumInvocations
Payloads == {Bytes(<<7, 7>>), Bytes(<<9>>)}          \* contents of the files
ReadErrors == {Err("NotReadableError")}              \* rejections of file.arrayBuffer()
HostErrors == {Err("quota"), Err("timeout")}         \* error objects of the host

\* The folder option handed to upload_stream.
Folder == "project-logos"

\* Strings of the events page are sequences of characters; "" is <<>>.
Chars == {"a", "A", "b"}

\* Events the server may hold: _id, title and description (the fields the
\* page reads for filtering and deleting).
E1 == [_id |-> "e1", title |-> <<"A", "b">>, description |-> <<"b", "a">>]
E2 == [_id |-> "e2", title |-> <<"b">>, description |-> <<>>]
E3 == [_id |-> "e3", title |-> <<"B", "B">>, description |-> <<"a", "A">>]
Catalog == {E1, E2, E3}

\* Sequences over S of length n, and of length at most n.
RECURSIVE SeqsOfLen(_, _)
SeqsOfLen(S, n) ==
    IF n = 0 THEN {<<>>}
    ELSE {Append(t, x) : t \in SeqsOfLen(S, n - 1), x \in S}

SeqsUpTo(S, n) == UNION {SeqsOfLen(S, k) : k \in 0..n}

\* Search strings the admin may type.
Queries == SeqsUpTo(Chars, MaxQueryLen)

\* Collections without repeated events (identifiers are unique).
Collections ==
    {c \in SeqsUpTo(Catalog, MaxEvents) :
        \A a, b \in 1..Len(c) : a # b => c[a] # c[b]}

VARIABLES
    \* --- upload bridge
    pc,             \* per invocation: where uploadToCloudinary stands
    file,           \* per invocation: the bytes of the File argument
    readState,      \* per invocation: state of the promise of file.arrayBuffer()
    buffer,         \* per invocation: Buffer.from(arrayBuffer), Null before
    readError,      \* per invocation: what arrayBuffer() rejected with
    resolved,       \* per invocation: values the returned promise fulfilled with
    rejected,       \* per invocation: values the returned promise rejected with
    uncaught,       \* per invocation: exceptions thrown out of the callback
    transmissions,  \* per invocation: uploads written to the host, [folder, body]
    hostObjects,    \* objects the host stored, its location = its index
    cbCount,        \* per invocation: calls of the completion callback
    lastCb,         \* the host's latest callback call: [inv, error, result]
    \* --- admin events page
    serverEvents,   \* the collection the REST server holds
    mounted,        \* the useEffect of the page has run
    events,         \* useState: the list last fetched
    isLoading,      \* useState
    searchQuery,    \* useState
    deleteModal,    \* useState: [isOpen, eventId, eventTitle]
    net,            \* requests in flight, in the order they were issued
    deletesIssued,  \* DELETE requests issued so far
    toasts,         \* notifications shown so far
    \* --- sponsor form
    logo,           \* the FileList of the logo input: files [size, type]
    fieldsValid,    \* the other fields satisfy their rules of the schema
    logoError,      \* errors.logo.message, "" when there is none
    isSubmitting,   \* useState
    sponsorNet,     \* POST requests to /api/sponsors in flight
    submits,        \* submissions of the form so far
    sponsorToasts,  \* notifications shown so far
    route           \* where the router stands

uploadVars == <<pc, file, readState, buffer, readError, resolved, rejected, uncaught,
                transmissions, hostObjects, cbCount, lastCb>>

pageVars == <<serverEvents, mounted, events, isLoading, searchQuery,
              deleteModal, net, deletesIssued, toasts>>

sponsorVars == <<logo, fieldsValid, logoError, isSubmitting, sponsorNet,
                 submits, sponsorToasts, route>>

vars == <<uploadVars, pageVars, sponsorVars>>

\* ------------------------------------------------------------- helpers
Settled(i) == resolved[i] # <<>> \/ rejected[i] # <<>>

\* All calls of completion callbacks so far.
RECURSIVE TotalCalls(_)
TotalCalls(n) == IF n = 0 THEN 0 ELSE cbCount[n] + TotalCalls(n - 1)

ObjectsOf(i) == {n \in 1..Len(hostObjects) : hostObjects[n].inv = i}

\* The result object the host builds for the object it stored at location n.
\* Its fields differ, as the host's do (https, http, identifier).
HostResult(n) ==
    [type       |-> "object",
     secure_url |-> Str("https", hostObjects[n].folder, n),
     url        |-> Str("http", hostObjects[n].folder, n),
     public_id  |-> Str("", hostObjects[n].folder, n)]

\* A promise that notifies on every resolve/reject call (no single-settlement).
SettleEveryCall(i, kind, v) ==
    /\ resolved' = [resolved EXCEPT ![i] = IF kind = "resolve" THEN Append(@, v) ELSE @]
    /\ rejected' = [rejected EXCEPT ![i] = IF kind = "reject" THEN Append(@, v) ELSE @]

\* resolve(v) / reject(v) of the promise uploadToCloudinary returns: the first
\* call settles it, every later call is ignored.
Settle(i, kind, v) ==
    IF Settled(i)
    THEN UNCHANGED <<resolved, rejected>>
    ELSE /\ resolved' = [resolved EXCEPT ![i] = IF kind = "resolve" THEN <<v>> ELSE @]
         /\ rejected' = [rejected EXCEPT ![i] = IF kind = "reject" THEN <<v>> ELSE @]

\* ------------------------------------------------------------- initial state
UploadInit ==
    /\ pc = [i \in Inv |-> "idle"]
    /\ file = [i \in Inv |-> Null]
    /\ readState = [i \in Inv |-> "none"]
    /\ buffer = [i \in Inv |-> Null]
    /\ readError = [i \in Inv |-> Null]
    /\ resolved = [i \in Inv |-> <<>>]
    /\ rejected = [i \in Inv |-> <<>>]
    /\ uncaught = [i \in Inv |-> 0]
    /\ transmissions = [i \in Inv |-> <<>>]
    /\ hostObjects = <<>>
    /\ cbCount = [i \in Inv |-> 0]
    /\ lastCb = Null

\* The page as first rendered (lines 36-43), with the server holding one of cs.
PageInit(cs) ==
    /\ serverEvents \in cs
    /\ mounted = FALSE
    /\ events = <<>>
    /\ isLoading = TRUE
    /\ searchQuery = <<>>
    /\ deleteModal = [isOpen |-> FALSE, eventId |-> "", eventTitle |-> <<>>]
    /\ net = <<>>
    /\ deletesIssued = 0
    /\ toasts = {}

\* The sponsor form as first rendered (lines 41-50).
SponsorInit ==
    /\ logo = <<>>
    /\ fieldsValid = FALSE
    /\ logoError = ""
    /\ isSubmitting = FALSE
    /\ sponsorNet = <<>>
    /\ submits = 0
    /\ sponsorToasts = {}
    /\ route = "/admin/sponsors/create"

Init == UploadInit /\ PageInit({<<E1, E2>>}) /\ SponsorInit

\* ------------------------------------------------------------- actions
\* uploadToCloudinary(file) is called: line 11 calls file.arrayBuffer() and
\* awaits its promise.
Invoke(i, f) ==
    /\ pc[i] = "idle"
    /\ pc' = [pc EXCEPT ![i] = "awaitRead"]
    /\ file' = [file EXCEPT ![i] = f]
    /\ readState' = [readState EXCEPT ![i] = "pending"]
    /\ UNCHANGED <<buffer, readError, resolved, rejected, uncaught,
                   transmissions, hostObjects, cbCount, lastCb>>
    /\ UNCHANGED <<pageVars, sponsorVars>>

\* file.arrayBuffer() fulfils with the file's complete content.
FileReadResolves(i) ==
    /\ readState[i] = "pending"
    /\ readState' = [readState EXCEPT ![i] = "fulfilled"]
    /\ UNCHANGED <<pc, file, buffer, readError, resolved, rejected, uncaught,
                   transmissions, hostObjects, cbCount, lastCb>>
    /\ UNCHANGED <<pageVars, sponsorVars>>

\* file.arrayBuffer() rejects.
FileReadRejects(i, e) ==
    /\ readState[i] = "pending"
    /\ readState' = [readState EXCEPT ![i] = "rejected"]
    /\ readError' = [readError EXCEPT ![i] = e]
    /\ UNCHANGED <<pc, file, buffer, resolved, rejected, uncaught,
                   transmissions, hostObjects, cbCount, lastCb>>
    /\ UNCHANGED <<pageVars, sponsorVars>>

\* A bridge that keeps the URL of an earlier upload of the same bytes.
StartUploadCached(i) ==
    /\ pc[i] = "awaitRead"
    /\ readState[i] = "fulfilled"
    /\ buffer' = [buffer EXCEPT ![i] = file[i]]
    /\ pc' = [pc EXCEPT ![i] = "uploading"]
    /\ IF \E j \in Inv : j # i /\ file[j] = file[i] /\ resolved[j] # <<>>
       THEN LET j == CHOOSE j \in Inv : j # i /\ file[j] = file[i] /\ resolved[j] # <<>>
            IN  /\ resolved' = [resolved EXCEPT ![i] = resolved[j]]
                /\ UNCHANGED <<rejected, transmissions>>
       ELSE /\ transmissions' = [transmissions EXCEPT ![i] =
                    Append(@, [folder |-> Folder, body |-> file[i]])]
            /\ UNCHANGED <<resolved, rejected>>
    /\ UNCHANGED <<file, readState, readError, uncaught, hostObjects, cbCount, lastCb>>
    /\ UNCHANGED <<pageVars, sponsorVars>>

\* A bridge that does not await the read: it opens the upload stream and ends
\* it with whatever has been read so far.
StartUploadEarly(i) ==
    /\ pc[i] = "awaitRead"
    /\ readState[i] \in {"pending", "fulfilled"}
    /\ buffer' = [buffer EXCEPT ![i] =
            IF readState[i] = "fulfilled" THEN file[i] ELSE Bytes(<<>>)]
    /\ pc' = [pc EXCEPT ![i] = "uploading"]
    /\ transmissions' = [transmissions EXCEPT ![i] =
            Append(@, [folder |-> Folder, body |-> buffer'[i]])]
    /\ UNCHANGED <<file, readState, readError, resolved, rejected, uncaught,
                   hostObjects, cbCount, lastCb>>
    /\ UNCHANGED <<pageVars, sponsorVars>>

\* Lines 12-24, run when the await of line 11 resumes: the buffer is built, the
\* promise is created, its executor opens the upload stream with the folder
\* option and the callback, and end(buffer) writes the whole buffer to it.
StartUpload(i) ==
    /\ pc[i] = "awaitRead"
    /\ readState[i] = "fulfilled"
    /\ buffer' = [buffer EXCEPT ![i] = file[i]]
    /\ pc' = [pc EXCEPT ![i] = "uploading"]
    /\ transmissions' = [transmissions EXCEPT ![i] =
            Append(@, [folder |-> Folder, body |-> buffer'[i]])]
    /\ UNCHANGED <<file, readState, readError, resolved, rejected, uncaught,
                   hostObjects, cbCount, lastCb>>
    /\ UNCHANGED <<pageVars, sponsorVars>>

\* Lines 25-28: the rejection of arrayBuffer() is caught, logged and thrown
\* again, which rejects the promise the async function returned.
CatchRethrow(i) ==
    /\ pc[i] = "awaitRead"
    /\ readState[i] = "rejected"
    /\ pc' = [pc EXCEPT ![i] = "thrown"]
    /\ Settle(i, "reject", readError[i])
    /\ UNCHANGED <<file, readState, buffer, readError, uncaught,
                   transmissions, hostObjects, cbCount, lastCb>>
    /\ UNCHANGED <<pageVars, sponsorVars>>

\* The host stores the object of the next transmission of invocation i and
\* assigns it the next free location.
HostStore(i) ==
    /\ Len(transmissions[i]) > Cardinality(ObjectsOf(i))
    /\ LET tx == transmissions[i][Cardinality(ObjectsOf(i)) + 1]
       IN  hostObjects' = Append(hostObjects,
                [inv |-> i, folder |-> tx.folder, body |-> tx.body])
    /\ UNCHANGED <<pc, file, readState, buffer, readError, resolved, rejected,
                   uncaught, transmissions, cbCount, lastCb>>
    /\ UNCHANGED <<pageVars, sponsorVars>>

\* A callback that rejects with an error of its own making.
UploadCallbackWrap(i, error, result) ==
    /\ IF error # Null
       THEN Settle(i, "reject", Err("Upload failed")) /\ UNCHANGED uncaught
       ELSE IF result = Null
            THEN uncaught' = [uncaught EXCEPT ![i] = @ + 1]
                 /\ UNCHANGED <<resolved, rejected>>
            ELSE Settle(i, "resolve", result.secure_url) /\ UNCHANGED uncaught
    /\ UNCHANGED transmissions

\* A callback that resolves with the result's url field.
UploadCallbackUrl(i, error, result) ==
    /\ IF error # Null
       THEN Settle(i, "reject", error) /\ UNCHANGED uncaught
       ELSE IF result = Null
            THEN uncaught' = [uncaught EXCEPT ![i] = @ + 1]
                 /\ UNCHANGED <<resolved, rejected>>
            ELSE Settle(i, "resolve", result.url) /\ UNCHANGED uncaught
    /\ UNCHANGED transmissions

\* A callback that answers a host error by transmitting the buffer again.
UploadCallbackRetry(i, error, result) ==
    IF error # Null /\ Len(transmissions[i]) < 2
    THEN /\ transmissions' = [transmissions EXCEPT ![i] =
                Append(@, [folder |-> Folder, body |-> buffer[i]])]
         /\ UNCHANGED <<resolved, rejected, uncaught>>
    ELSE /\ IF error # Null
            THEN Settle(i, "reject", error) /\ UNCHANGED uncaught
            ELSE IF result = Null
                 THEN uncaught' = [uncaught EXCEPT ![i] = @ + 1]
                      /\ UNCHANGED <<resolved, rejected>>
                 ELSE Settle(i, "resolve", result.secure_url) /\ UNCHANGED uncaught
         /\ UNCHANGED transmissions

\* Lines 19-22, the completion callback: a truthy error rejects with it;
\* otherwise result.secure_url is read, which throws a TypeError out of the
\* callback when result is undefined, and resolves the promise when it is not.
UploadCallback(i, error, result) ==
    /\ IF error # Null
       THEN Settle(i, "reject", error) /\ UNCHANGED uncaught
       ELSE IF result = Null
            THEN uncaught' = [uncaught EXCEPT ![i] = @ + 1]
                 /\ UNCHANGED <<resolved, rejected>>
            ELSE Settle(i, "resolve", result.secure_url) /\ UNCHANGED uncaught
    /\ UNCHANGED transmissions

\* The host calls the callback it was given for invocation i.
CallCallback(i, error, result) ==
    /\ transmissions[i] # <<>>
    /\ TotalCalls(NumInvocations) < MaxCalls
    /\ cbCount' = [cbCount EXCEPT ![i] = @ + 1]
    /\ lastCb' = [inv |-> i, error |-> error, result |-> result]
    /\ UploadCallback(i, error, result)
    /\ UNCHANGED <<pc, file, readState, buffer, readError, hostObjects>>
    /\ UNCHANGED <<pageVars, sponsorVars>>

\* Any host: the callback's arguments are not constrained.
HostCallback(i) ==
    \E error \in HostErrors \cup {Null} :
      \E result \in {Null} \cup {HostResult(n) : n \in 1..Len(hostObjects)} :
        CallCallback(i, error, result)

\* A host that reports either an error or the object it stored for this upload.
FreshHostCallback(i) ==
    \/ \E error \in HostErrors : CallCallback(i, error, Null)
    \/ \E n \in ObjectsOf(i) : CallCallback(i, Null, HostResult(n))

Next ==
    \E i \in Inv :
        \/ \E f \in Payloads : Invoke(i, f)
        \/ FileReadResolves(i)
        \/ \E e \in ReadErrors : FileReadRejects(i, e)
        \/ StartUpload(i)
        \/ CatchRethrow(i)
        \/ HostStore(i)
        \/ HostCallback(i)

Spec == Init /\ [][Next]_vars

NextFresh ==
    \E i \in Inv :
        \/ \E f \in Payloads : Invoke(i, f)
        \/ FileReadResolves(i)
        \/ \E e \in ReadErrors : FileReadRejects(i, e)
        \/ StartUpload(i)
        \/ CatchRethrow(i)
        \/ HostStore(i)
        \/ FreshHostCallback(i)

SpecFresh == Init /\ [][NextFresh]_vars

\* ------------------------------------------------------- admin events page
\* String.prototype.toLowerCase, character by character.
LowerChar(c) == IF c = "A" THEN "a" ELSE IF c = "B" THEN "b" ELSE c

RECURSIVE toLowerCase(_)
toLowerCase(str) ==
    IF str = <<>> THEN <<>>
    ELSE <<LowerChar(Head(str))>> \o toLowerCase(Tail(str))

\* Whether q occurs in str at position k (0-based).
StartsAt(str, q, k) ==
    /\ k + Len(q) <= Len(str)
    /\ \A j \in 1..Len(q) : str[k + j] = q[j]

\* String.prototype.includes: the positions are tried from k on, in order.
RECURSIVE includesFrom(_, _, _)
includesFrom(str, q, k) ==
    IF k + Len(q) > Len(str) THEN FALSE
    ELSE IF StartsAt(str, q, k) THEN TRUE
    ELSE includesFrom(str, q, k + 1)

includes(str, q) == includesFrom(str, q, 0)

\* A predicate that compares the title and the description with the search
\* string as typed.
MatchesSearchAsTyped(event, q) ==
    \/ includes(toLowerCase(event.title), q)
    \/ includes(toLowerCase(event.description), q)

\* The predicate of lines 88-91.
MatchesSearch(event, q) ==
    \/ includes(toLowerCase(event.title), toLowerCase(q))
    \/ includes(toLowerCase(event.description), toLowerCase(q))

\* Array.prototype.filter with that predicate: the elements are visited in
\* order and the matching ones are appended to the result.
RECURSIVE FilterEvents(_, _)
FilterEvents(list, q) ==
    IF list = <<>> THEN <<>>
    ELSE (IF MatchesSearch(Head(list), q) THEN <<Head(list)>> ELSE <<>>)
            \o FilterEvents(Tail(list), q)

\* Lines 88-91.
filteredEvents == FilterEvents(events, searchQuery)

\* The cards on screen (lines 119-125): none while loading.
Cards == IF isLoading THEN {} ELSE {filteredEvents[k] : k \in 1..Len(filteredEvents)}

\* DeleteModal (components/DeleteModal), a confirm/cancel modal: its Confirm
\* and Cancel buttons are on screen exactly while isOpen is true, and while it
\* is on screen it covers the cards behind it.
DeleteModalShown == deleteModal.isOpen

ClosedModal == [isOpen |-> FALSE, eventId |-> "", eventTitle |-> <<>>]

GetRequest == [kind |-> "GET", target |-> "", stage |-> "sent", body |-> <<>>]

DeleteRequest(id) == [kind |-> "DELETE", target |-> id, stage |-> "sent", body |-> <<>>]

\* seq without its k-th element.
RemoveAt(seq, k) == SubSeq(seq, 1, k - 1) \o SubSeq(seq, k + 1, Len(seq))

\* The collection without the event whose identifier is id.
RECURSIVE WithoutEvent(_, _)
WithoutEvent(list, id) ==
    IF list = <<>> THEN <<>>
    ELSE (IF Head(list)._id = id THEN <<>> ELSE <<Head(list)>>) \o WithoutEvent(Tail(list), id)

\* Lines 59-61 with lines 46-47: the mount effect calls fetchEvents, which sets
\* isLoading and issues the GET.
Mount ==
    /\ ~mounted
    /\ mounted' = TRUE
    /\ isLoading' = TRUE
    /\ net' = Append(net, GetRequest)
    /\ UNCHANGED <<serverEvents, events, searchQuery, deleteModal, deletesIssued, toasts>>
    /\ UNCHANGED <<uploadVars, sponsorVars>>

\* Line 113: the admin types in the search box.
SetSearchQuery(q) ==
    /\ searchQuery' = q
    /\ q # searchQuery
    /\ UNCHANGED <<serverEvents, mounted, events, isLoading, deleteModal, net,
                   deletesIssued, toasts>>
    /\ UNCHANGED <<uploadVars, sponsorVars>>

\* Lines 63-69 from line 203: the delete button of a card on screen.
handleDeleteClick(event) ==
    /\ event \in Cards
    /\ ~DeleteModalShown
    /\ deleteModal' = [isOpen |-> TRUE, eventId |-> event._id, eventTitle |-> event.title]
    /\ UNCHANGED <<serverEvents, mounted, events, isLoading, searchQuery, net,
                   deletesIssued, toasts>>
    /\ UNCHANGED <<uploadVars, sponsorVars>>

\* Line 217: onClose of the modal.
CloseModal ==
    /\ DeleteModalShown
    /\ deleteModal' = ClosedModal
    /\ UNCHANGED <<serverEvents, mounted, events, isLoading, searchQuery, net,
                   deletesIssued, toasts>>
    /\ UNCHANGED <<uploadVars, sponsorVars>>

\* A confirm handler that deletes the first event of the list.
handleDeleteConfirmFirst ==
    /\ DeleteModalShown
    /\ deletesIssued < MaxDeletes
    /\ events # <<>>
    /\ net' = Append(net, DeleteRequest(events[1]._id))
    /\ deletesIssued' = deletesIssued + 1
    /\ UNCHANGED <<serverEvents, mounted, events, isLoading, searchQuery,
                   deleteModal, toasts>>
    /\ UNCHANGED <<uploadVars, sponsorVars>>

\* Lines 70-74: onConfirm of the modal, up to the await of the DELETE request
\* for deleteModal.eventId.
handleDeleteConfirm ==
    /\ DeleteModalShown
    /\ deletesIssued < MaxDeletes
    /\ net' = Append(net, DeleteRequest(deleteModal.eventId))
    /\ deletesIssued' = deletesIssued + 1
    /\ UNCHANGED <<serverEvents, mounted, events, isLoading, searchQuery,
                   deleteModal, toasts>>
    /\ UNCHANGED <<uploadVars, sponsorVars>>

\* The server answers the k-th request in flight. GET: the collection as it is
\* now, or a failure. DELETE: the event is removed and the answer is ok, or
\* nothing is removed and the answer is not ok; an identifier the collection
\* does not hold is answered either way.
ServerHandle(k) ==
    /\ k \in 1..Len(net)
    /\ net[k].stage = "sent"
    /\ \/ /\ net[k].kind = "GET"
          /\ \/ net' = [net EXCEPT ![k].stage = "ok", ![k].body = serverEvents]
             \/ net' = [net EXCEPT ![k].stage = "notok"]
          /\ UNCHANGED serverEvents
       \/ /\ net[k].kind = "DELETE"
          /\ \/ /\ net' = [net EXCEPT ![k].stage = "ok"]
                /\ serverEvents' = WithoutEvent(serverEvents, net[k].target)
             \/ /\ net' = [net EXCEPT ![k].stage = "notok"]
                /\ UNCHANGED serverEvents
    /\ UNCHANGED <<mounted, events, isLoading, searchQuery, deleteModal,
                   deletesIssued, toasts>>
    /\ UNCHANGED <<uploadVars, sponsorVars>>

\* The k-th request never reaches the server: its fetch will reject.
NetworkError(k) ==
    /\ k \in 1..Len(net)
    /\ net[k].stage = "sent"
    /\ net' = [net EXCEPT ![k].stage = "error"]
    /\ UNCHANGED <<serverEvents, mounted, events, isLoading, searchQuery,
                   deleteModal, deletesIssued, toasts>>
    /\ UNCHANGED <<uploadVars, sponsorVars>>

\* Lines 48-56, run when the await of line 47 resumes: an ok answer replaces
\* events with its body, anything else shows a toast; isLoading is cleared.
fetchEventsResume(k) ==
    /\ k \in 1..Len(net)
    /\ net[k].kind = "GET"
    /\ net[k].stage # "sent"
    /\ IF net[k].stage = "ok"
       THEN events' = net[k].body /\ UNCHANGED toasts
       ELSE toasts' = toasts \cup {"Failed to load events"} /\ UNCHANGED events
    /\ isLoading' = FALSE
    /\ net' = RemoveAt(net, k)
    /\ UNCHANGED <<serverEvents, mounted, searchQuery, deleteModal, deletesIssued>>
    /\ UNCHANGED <<uploadVars, sponsorVars>>

\* A confirm handler that refetches whether or not the delete succeeded.
handleDeleteConfirmResumeRefetch(k) ==
    /\ k \in 1..Len(net)
    /\ net[k].kind = "DELETE"
    /\ net[k].stage # "sent"
    /\ toasts' = toasts \cup
            {IF net[k].stage = "ok" THEN "Event deleted successfully" ELSE "Error deleting event"}
    /\ isLoading' = TRUE
    /\ net' = Append(RemoveAt(net, k), GetRequest)
    /\ deleteModal' = ClosedModal
    /\ UNCHANGED <<serverEvents, mounted, events, searchQuery, deletesIssued>>
    /\ UNCHANGED <<uploadVars, sponsorVars>>

\* Lines 76-85, run when the await of line 72 resumes: an ok answer shows the
\* success toast and calls fetchEvents (lines 46-47: isLoading is set and the
\* GET is issued), anything else shows the error toast; the modal is reset.
handleDeleteConfirmResume(k) ==
    /\ k \in 1..Len(net)
    /\ net[k].kind = "DELETE"
    /\ net[k].stage # "sent"
    /\ IF net[k].stage = "ok"
       THEN /\ toasts' = toasts \cup {"Event deleted successfully"}
            /\ isLoading' = TRUE
            /\ net' = Append(RemoveAt(net, k), GetRequest)
       ELSE /\ toasts' = toasts \cup {"Error deleting event"}
            /\ net' = RemoveAt(net, k)
            /\ UNCHANGED isLoading
    /\ deleteModal' = ClosedModal
    /\ UNCHANGED <<serverEvents, mounted, events, searchQuery, deletesIssued>>
    /\ UNCHANGED <<uploadVars, sponsorVars>>

\* The search strings typed on the page whose requests are followed.
PageQueries == {<<>>, <<"a">>}

NextEvents ==
    \/ Mount
    \/ \E q \in PageQueries : SetSearchQuery(q)
    \/ \E event \in Catalog : handleDeleteClick(event)
    \/ CloseModal
    \/ handleDeleteConfirm
    \/ \E k \in 1..(1 + 2 * MaxDeletes) :
        \/ ServerHandle(k)
        \/ NetworkError(k)
        \/ fetchEventsResume(k)
        \/ handleDeleteConfirmResume(k)

SpecEvents == Init /\ [][NextEvents]_vars

\* The page's list and search box alone, over every initial collection.
InitFilter == UploadInit /\ PageInit(Collections) /\ SponsorInit

NextFilter ==
    \/ Mount
    \/ \E q \in Queries : SetSearchQuery(q)
    \/ \E k \in 1..1 :
        \/ ServerHandle(k)
        \/ NetworkError(k)
        \/ fetchEventsResume(k)

SpecFilter == InitFilter /\ [][NextFilter]_vars

\* ------------------------------------------------------------- sponsor form
\* Line 20: 2 * 1024 * 1024.
MaxLogoBytes == 2 * 1024 * 1024

\* Line 25.
AllowedTypes == {"image/jpeg", "image/jpg", "image/png"}

\* Files the admin may pick: sizes around the limit, types inside and outside
\* the allowed ones (accept is a hint of the picker, not a filter).
FileSizes == {0, 1, MaxLogoBytes - 1, MaxLogoBytes, MaxLogoBytes + 1}
FileTypes == AllowedTypes \cup {"image/gif"}
Files == [size : FileSizes, type : FileTypes]
FileLists == SeqsUpTo(Files, MaxFiles)

\* Line 18: files?.length === 1.
LogoPresent(files) == Len(files) = 1

\* Line 20: files?.[0]?.size <= 2 * 1024 * 1024 (undefined <= n is false).
LogoSizeOk(files) == files # <<>> /\ files[1].size <= 2 * 1024 * 1024

\* Line 25: the list of types includes files?.[0]?.type.
LogoTypeOk(files) == files # <<>> /\ files[1].type \in AllowedTypes

\* The messages of the refinements of lines 17-27 that fail, in their order.
LogoIssues(files) ==
    (IF LogoPresent(files) THEN <<>> ELSE <<"Logo is required">>)
    \o (IF LogoSizeOk(files) THEN <<>> ELSE <<"Logo must be less than 2MB">>)
    \o (IF LogoTypeOk(files) THEN <<>> ELSE <<"Only .jpg, .jpeg, and .png files are allowed">>)

PostRequest(files) == [kind |-> "POST", logo |-> files[1], stage |-> "sent"]

\* Lines 117-122: the admin picks the files of the logo input.
ChooseLogo(files) ==
    /\ route = "/admin/sponsors/create"
    /\ files # logo
    /\ logo' = files
    /\ UNCHANGED <<fieldsValid, logoError, isSubmitting, sponsorNet, submits,
                   sponsorToasts, route>>
    /\ UNCHANGED <<uploadVars, pageVars>>

\* The admin edits name, description, email, phone, website or level.
EditFields(valid) ==
    /\ route = "/admin/sponsors/create"
    /\ valid # fieldsValid
    /\ fieldsValid' = valid
    /\ UNCHANGED <<logo, logoError, isSubmitting, sponsorNet, submits,
                   sponsorToasts, route>>
    /\ UNCHANGED <<uploadVars, pageVars>>

\* Line 86 with lines 49 and 52-68: the form is submitted (its button is
\* disabled while isSubmitting). The resolver validates the values against the
\* schema; the first issue of the logo becomes errors.logo; onSubmit runs only
\* when nothing failed, sets isSubmitting and issues the POST.
Submit ==
    /\ route = "/admin/sponsors/create"
    /\ ~isSubmitting
    /\ submits < MaxSubmits
    /\ submits' = submits + 1
    /\ logoError' = IF LogoIssues(logo) = <<>> THEN "" ELSE LogoIssues(logo)[1]
    /\ IF LogoIssues(logo) = <<>> /\ fieldsValid
       THEN /\ isSubmitting' = TRUE
            /\ sponsorNet' = Append(sponsorNet, PostRequest(logo))
       ELSE UNCHANGED <<isSubmitting, sponsorNet>>
    /\ UNCHANGED <<logo, fieldsValid, sponsorToasts, route>>
    /\ UNCHANGED <<uploadVars, pageVars>>

\* The server answers the POST (ok or not), or the request fails.
SponsorServer(answer) ==
    /\ sponsorNet # <<>>
    /\ sponsorNet[1].stage = "sent"
    /\ sponsorNet' = [sponsorNet EXCEPT ![1].stage = answer]
    /\ UNCHANGED <<logo, fieldsValid, logoError, isSubmitting, submits,
                   sponsorToasts, route>>
    /\ UNCHANGED <<uploadVars, pageVars>>

\* Lines 70-79, run when the await of line 65 resumes.
onSubmitResume ==
    /\ sponsorNet # <<>>
    /\ sponsorNet[1].stage # "sent"
    /\ IF sponsorNet[1].stage = "ok"
       THEN /\ sponsorToasts' = sponsorToasts \cup {"Sponsor created successfully!"}
            /\ route' = "/admin/sponsors"
       ELSE /\ sponsorToasts' = sponsorToasts \cup {"Error creating sponsor"}
            /\ UNCHANGED route
    /\ isSubmitting' = FALSE
    /\ sponsorNet' = Tail(sponsorNet)
    /\ UNCHANGED <<logo, fieldsValid, logoError, submits>>
    /\ UNCHANGED <<uploadVars, pageVars>>

\* Line 185: the Cancel button.
CancelForm ==
    /\ route = "/admin/sponsors/create"
    /\ route' = "back"
    /\ UNCHANGED <<logo, fieldsValid, logoError, isSubmitting, sponsorNet,
                   submits, sponsorToasts>>
    /\ UNCHANGED <<uploadVars, pageVars>>

NextSponsor ==
    \/ \E files \in FileLists : ChooseLogo(files)
    \/ \E valid \in BOOLEAN : EditFields(valid)
    \/ Submit
    \/ \E answer \in {"ok", "notok", "error"} : SponsorServer(answer)
    \/ onSubmitResume
    \/ CancelForm

SpecSponsor == Init /\ [][NextSponsor]_vars

\* ------------------------------------------------------------- claims
\* A step in which the host called the completion callback of invocation i.
CallbackStep(i) == cbCount'[i] = cbCount[i] + 1

\* C1: an invocation never has more than one outcome (the returned promise is
\* never both fulfilled and rejected, nor settled twice), and once it is
\* settled its outcome never changes, whatever the host calls the callback
\* with and however often.
C1_SingleOutcome ==
    [][\A i \in Inv :
        /\ Len(resolved'[i]) + Len(rejected'[i]) <= 1
        /\ Settled(i) => resolved'[i] = resolved[i] /\ rejected'[i] = rejected[i]]_vars

\* The host called the callback of a fulfilled invocation again, with an error.
C1_Witness ==
    \E i \in Inv :
        /\ cbCount[i] >= 2
        /\ resolved[i] # <<>>
        /\ lastCb # Null /\ lastCb.inv = i /\ lastCb.error # Null

\* C2: once the host has called the completion callback, the invocation is
\* settled, whatever the arguments of the call were.
C2_SettledAfterCallback ==
    \A i \in Inv : cbCount[i] >= 1 => Settled(i)

\* C3: a callback call that reports an error to an unsettled invocation
\* rejects it with exactly that error object and produces no reference.
C3_HostErrorRejects ==
    [][\A i \in Inv :
        (CallbackStep(i) /\ ~Settled(i) /\ lastCb'.error # Null)
            => rejected'[i] = <<lastCb'.error>> /\ resolved'[i] = <<>>]_vars

\* The host reported an error together with a result, and the invocation was
\* rejected with the error.
C3_Witness ==
    \E i \in Inv :
        /\ lastCb # Null /\ lastCb.inv = i
        /\ lastCb.error \in HostErrors /\ lastCb.result # Null
        /\ rejected[i] = <<lastCb.error>> /\ resolved[i] = <<>>

\* C4: a callback call that reports success (no error) with a result whose
\* secure_url is s fulfils an unsettled invocation with exactly s.
C4_ResolvesWithSecureUrl ==
    [][\A i \in Inv :
        (CallbackStep(i) /\ ~Settled(i) /\ lastCb'.error = Null /\ lastCb'.result # Null)
            => resolved'[i] = <<lastCb'.result.secure_url>> /\ rejected'[i] = <<>>]_vars

\* An invocation was fulfilled with the secure_url the host reported, here the
\* one of an object stored for another invocation.
C4_Witness ==
    \E i \in Inv :
        /\ lastCb # Null /\ lastCb.inv = i /\ cbCount[i] = 1
        /\ lastCb.error = Null /\ lastCb.result # Null
        /\ lastCb.result.secure_url.loc \notin ObjectsOf(i)
        /\ resolved[i] = <<lastCb.result.secure_url>>

\* C5 as stated: a settled invocation has issued exactly one upload.
C5_ExactlyOneUpload ==
    \A i \in Inv : Settled(i) => Len(transmissions[i]) = 1

\* C5 as amended: every upload goes to the folder "project-logos"; an
\* invocation whose read has completed and that has gone on to upload has
\* issued exactly one upload, however the host answered and however often;
\* any other invocation (not started, still reading, read failed) has issued
\* none.
C5_OneUploadOnceRead ==
    \A i \in Inv :
        /\ \A k \in 1..Len(transmissions[i]) : transmissions[i][k].folder = "project-logos"
        /\ pc[i] = "uploading" => Len(transmissions[i]) = 1
        /\ pc[i] # "uploading" => Len(transmissions[i]) = 0

\* The host failed an upload and called the callback again: still one upload.
C5_Witness ==
    \E i \in Inv :
        /\ cbCount[i] >= 2
        /\ rejected[i] # <<>> /\ rejected[i][1] \in HostErrors
        /\ Len(transmissions[i]) = 1

\* C6 (host that assigns a fresh location per stored object): two invocations
\* with byte-identical payloads that both succeeded have each made their own
\* transmission, the host stored two separate objects, and the two references
\* differ.
C6_DistinctReferences ==
    \A i, j \in Inv :
        (i # j /\ file[i] = file[j] /\ resolved[i] # <<>> /\ resolved[j] # <<>>)
            => /\ Len(transmissions[i]) = 1 /\ Len(transmissions[j]) = 1
               /\ ObjectsOf(i) # {} /\ ObjectsOf(j) # {}
               /\ ObjectsOf(i) \cap ObjectsOf(j) = {}
               /\ resolved[i] # resolved[j]

\* Two invocations with the same bytes both succeeded.
C6_Witness ==
    \E i, j \in Inv :
        /\ i # j /\ file[i] = file[j]
        /\ resolved[i] # <<>> /\ resolved[j] # <<>>
        /\ transmissions[i] = transmissions[j]

\* C10: an upload is started only after file.arrayBuffer() has fulfilled, and
\* it carries the file's complete content; when the read fails nothing is ever
\* transmitted, no reference is produced, and once the catch block has run the
\* invocation is rejected with the read error.
C10_ReadBeforeUpload ==
    \A i \in Inv :
        /\ transmissions[i] # <<>> =>
              /\ readState[i] = "fulfilled"
              /\ \A k \in 1..Len(transmissions[i]) : transmissions[i][k].body = file[i]
        /\ readState[i] = "rejected" =>
              /\ transmissions[i] = <<>>
              /\ resolved[i] = <<>>
              /\ pc[i] = "thrown" => rejected[i] = <<readError[i]>>
        /\ pc[i] = "thrown" => readState[i] = "rejected"

\* One invocation failed reading and was rejected with the read error, another
\* read its file and transmitted it.
C10_Witness ==
    \E i, j \in Inv :
        /\ pc[i] = "thrown" /\ rejected[i] = <<readError[i]>> /\ readError[i] \in ReadErrors
        /\ transmissions[j] # <<>> /\ readState[j] = "fulfilled"

\* q occurs in str as a substring when both are lower-cased.
ContainsIgnoringCase(str, q) ==
    LET ls == toLowerCase(str)
        lq == toLowerCase(q)
    IN  \E k \in 0..Len(ls) : k + Len(lq) <= Len(ls) /\ SubSeq(ls, k + 1, k + Len(lq)) = lq

TitleOrDescriptionContains(event) ==
    \/ ContainsIgnoringCase(event.title, searchQuery)
    \/ ContainsIgnoringCase(event.description, searchQuery)

\* C7: filteredEvents is the sub-list of events, in the original order, of the
\* events whose title or description contains the search string when both are
\* lower-cased; for the empty search string it is events itself.
C7_FilterIsCaseInsensitiveMatch ==
    /\ filteredEvents = SelectSeq(events, TitleOrDescriptionContains)
    /\ searchQuery = <<>> => filteredEvents = events

\* A search string with an upper-case letter keeps one event and drops another.
C7_Witness ==
    /\ Len(events) = 2
    /\ Len(filteredEvents) = 1
    /\ \E k \in 1..Len(searchQuery) : searchQuery[k] # LowerChar(searchQuery[k])

\* The DELETE requests in flight.
DeletesInFlight(n) == {k \in 1..Len(n) : n[k].kind = "DELETE"}

\* C8: the modal gates the delete. A step that opens the modal is a click on the delete button of a card on screen and stores that
\* card's identifier and title; a step that issues a DELETE request is taken
\* with the modal open and targets the identifier the modal holds; a step that
\* closes the modal issues no DELETE request and leaves events unchanged.
C8_ModalGatesDelete ==
    [][/\ (deleteModal'.isOpen /\ deleteModal' # deleteModal) =>
            \E event \in Cards :
                deleteModal' = [isOpen |-> TRUE, eventId |-> event._id,
                                eventTitle |-> event.title]
       /\ (deletesIssued' # deletesIssued
             \/ Cardinality(DeletesInFlight(net')) > Cardinality(DeletesInFlight(net))) =>
            /\ deleteModal.isOpen
            /\ deletesIssued' = deletesIssued + 1
            /\ net' = Append(net, DeleteRequest(deleteModal.eventId))
            /\ deleteModal.eventId \in {event._id : event \in Catalog}
       /\ (deleteModal.isOpen /\ ~deleteModal'.isOpen) =>
            /\ deletesIssued' = deletesIssued
            /\ DeletesInFlight(net') \subseteq DeletesInFlight(net)
            /\ events' = events]_vars

\* A DELETE for the second event of the list is in flight and the modal has
\* been closed since.
C8_Witness ==
    /\ \E k \in DeletesInFlight(net) : net[k].target = "e2" /\ net[k].stage = "sent"
    /\ deletesIssued = 1
    /\ ~deleteModal.isOpen

\* C9: once the page has fetched, no request is in flight and no fetch has
\* failed, events is the server's collection.
C9_QuiescentListIsCurrent ==
    (mounted /\ net = <<>> /\ "Failed to load events" \notin toasts)
        => events = serverEvents

\* The GET requests in flight.
GetsInFlight(n) == {k \in 1..Len(n) : n[k].kind = "GET"}

\* The step is the confirm handler resuming on the answer to the k-th request
\* in flight, a DELETE: that request leaves the requests in flight.
DeleteAnswered(k) ==
    /\ k \in DeletesInFlight(net)
    /\ net[k].stage # "sent"
    /\ Cardinality(DeletesInFlight(net')) < Cardinality(DeletesInFlight(net))
    /\ Len(net') >= Len(net) - 1
    /\ SubSeq(net', 1, Len(net) - 1) = RemoveAt(net, k)

\* C11: when the confirm handler resumes on a failed DELETE (not ok, or the
\* fetch rejected) it shows the error notification and does nothing else: no
\* GET is issued, isLoading, events and the server's collection are unchanged.
\* On a failed and on a successful DELETE alike it leaves the modal closed with
\* eventId "" and eventTitle "", and events unchanged.
C11_FailedDeleteOnlyNotifies ==
    [][\A k \in 1..Len(net) :
        DeleteAnswered(k) =>
            /\ deleteModal' = [isOpen |-> FALSE, eventId |-> "", eventTitle |-> <<>>]
            /\ events' = events
            /\ net[k].stage \in {"notok", "error"} =>
                  /\ "Error deleting event" \in toasts'
                  /\ Cardinality(GetsInFlight(net')) = Cardinality(GetsInFlight(net))
                  /\ net' = RemoveAt(net, k)
                  /\ isLoading' = isLoading
                  /\ serverEvents' = serverEvents
            /\ net[k].stage = "ok" =>
                  /\ "Event deleted successfully" \in toasts'
                  /\ net' = Append(RemoveAt(net, k), GetRequest)]_vars

\* A delete has failed and another has succeeded; nothing is in flight, the
\* modal is closed and the list still shows the event whose delete failed.
C11_Witness ==
    /\ {"Error deleting event", "Event deleted successfully"} \subseteq toasts
    /\ net = <<>>
    /\ deleteModal = [isOpen |-> FALSE, eventId |-> "", eventTitle |-> <<>>]
    /\ events = serverEvents /\ Len(events) = 1

\* C12: a submission accepts the logo (leaves no logo error) exactly when the
\* list holds one file, smaller than 2 * 1024 * 1024 bytes, of type
\* image/jpeg, image/jpg or image/png; one file of exactly 2 * 1024 * 1024
\* bytes is rejected with "Logo must be less than 2MB"; and a submission whose
\* logo is rejected issues no POST.
C12_LogoUnderTwoMegabytes ==
    [][submits' # submits =>
        LET acceptable ==
                /\ Len(logo) = 1
                /\ logo[1].size < 2 * 1024 * 1024
                /\ logo[1].type \in {"image/jpeg", "image/jpg", "image/png"}
        IN  /\ (logoError' = "") <=> acceptable
            /\ (Len(logo) = 1 /\ logo[1].size = 2 * 1024 * 1024) =>
                    logoError' = "Logo must be less than 2MB"
            /\ ~acceptable => sponsorNet' = sponsorNet]_vars

====
